---- MODULE Spec2Model ----
(***************************************************************************)
(* State-machine model of the fetch wrapper of rus-sharafiev/fetch-api.    *)
(* Two classes are modelled: Fwr (src/src/fwr.ts) and FetchApi             *)
(* (src/index.js, second class).  A client owns a header collection, a     *)
(* token source and the browser's localStorage; every fetch call is a      *)
(* chain of asynchronous steps that suspend at the transport call, at the  *)
(* body parse and at the call of a callable token source.                  *)
(***************************************************************************)
EXTENDS Integers, Sequences, FiniteSets, TLC

\* ------------------------------------------------------------ bounds ----
MaxCalls == 2
MaxToken == 1
MaxTransport == 4
MaxKeys == 2

\* ---------------------------------------------------------- universes ---
Calls == 1..MaxCalls
\* the call slots of a client that makes one call at a time
Slots == {1}
Tokens == {"t" \o ToString(i) : i \in 1..MaxToken}
Undefined == "undefined"

Variants == {"Fwr", "FetchApi"}
TokenSources == {"none", "string", "callable"}
Methods == {"GET", "POST", "PATCH", "DELETE"}
Statuses == {200, 201, 401, 500}
Fingerprints == {Undefined, "", "fp"}

\* A response body (or the value a callable token source resolves with):
\* text that is no JSON, the JSON value null, or a JSON object of which
\* only the members the client reads are kept.
Obj(m, e, f, t) == [kind |-> "object", message |-> m, errors |-> e, fields |-> f, accessToken |-> t]
Unparseable == [kind |-> "unparseable"]
Null == [kind |-> "null"]
Objects == {Obj("m", "e", "f", Undefined)}
           \cup {Obj(Undefined, Undefined, Undefined, t) : t \in Tokens}
JsonValues == {Null} \cup Objects
ResponseBodies == {Unparseable} \cup JsonValues

\* ------------------------------------------------------ request bodies ---
\* The body argument of fetch: undefined, null, a plain object (a sequence
\* of entries in key order) or a pre-built FormData (a sequence of fields).
\* The value under a key is a plain JSON value, a File, a FileList or an
\* array of plain values and Files.
UndefinedBody == [kind |-> "undefined"]
Plain(v) == [kind |-> "plain", v |-> v]
File(id) == [kind |-> "File", id |-> id]
FileList(ids) == [kind |-> "FileList", files |-> ids]
Array(items) == [kind |-> "Array", items |-> items]
Entry(k, v) == [key |-> k, value |-> v]
Object(entries) == [kind |-> "object", entries |-> entries]
Field(n, v) == [name |-> n, value |-> v]
FormDataOf(fields) == [kind |-> "FormData", fields |-> fields]
NoBody == [kind |-> "none"]

JsonBody == Object(<<Entry("a", Plain(1))>>)
FileBody == Object(<<Entry("a", Plain(1)), Entry("f", File("F1"))>>)
PrebuiltForm == FormDataOf(<<Field("x", Plain(1))>>)
\* the bodies of the calls of Spec: absent, a plain JSON object, an object
\* holding a File under one of its own keys, a pre-built FormData
RequestBodies == {UndefinedBody, JsonBody, FileBody, PrebuiltForm}

\* the constructor's baseUrl, the url of a call, a string token source
BaseUrl == "https://api"
Urls == {"/items"}
TokenPath == "/token"

\* the options argument of the constructor: absent, or a RequestInit
\* without headers
NotGiven == [given |-> FALSE]
Given(o) == [given |-> TRUE, options |-> o]

VARIABLES variant, tokenSource, convertToFormData, callerOptions, options,
          headers, localStorage, calls, auth0, store0, lastOp

vars == <<variant, tokenSource, convertToFormData, callerOptions, options,
          headers, localStorage, calls, auth0, store0, lastOp>>

\* ------------------------------------------ Headers and localStorage ----
\* Both are finite maps from names to strings; an absent name is unset.
Has(map, name) == name \in DOMAIN map
MapSet(map, name, value) ==
    [n \in DOMAIN map \cup {name} |-> IF n = name THEN value ELSE map[n]]
MapDelete(map, name) == [n \in DOMAIN map \ {name} |-> map[n]]
EmptyMap == [n \in {} |-> ""]
\* { ...a, ...b }
Merge(a, b) ==
    [k \in DOMAIN a \cup DOMAIN b |-> IF k \in DOMAIN b THEN b[k] ELSE a[k]]
Unset == "(unset)"
Opt(map, name) == IF Has(map, name) THEN map[name] ELSE Unset

\* `Bearer ${x}`
Bearer(x) == "Bearer " \o x

\* ---------------------------------------------------------- outcomes ----
Pending == [kind |-> "pending"]
Resolved(v) == [kind |-> "resolved", value |-> v]
Rejected(v) == [kind |-> "rejected", value |-> v]

SyntaxError == [type |-> "SyntaxError"]
TypeError == [type |-> "TypeError"]
NetworkError == [type |-> "NetworkError"]
FailedToGetToken == [message |-> "Failed to get token"]

\* One fetch call.  phase is the frame that is running: "orig" the call
\* itself, "token" the token acquisition of refreshToken, "retry" the
\* re-issued request, "abort" the error(response) of refreshToken's catch.
\* step is the promise the frame is suspended on.  method, body, refresh are
\* the arguments (body after the encoding step), status the status of the
\* response being handled, token the local variable of refreshToken.
\* origStatus, lastStatus, parsed, threw and the counters record the history
\* of the call: the status of the original response, the status of the
\* last response to the original request or to the retry, the last parsed
\* body, whether the token acquisition threw.
\* url, bodyArg and over are the url, the body as the caller passed it and
\* the per-call overrides (the rest of the argument object); sent is the
\* request the frame handed to the transport last; via is the entry point
\* of the call and result the promise that entry point returned.
NotSent == [url |-> Unset, method |-> Unset, body |-> NoBody,
            contentType |-> Unset, credentials |-> Unset, cache |-> Unset,
            mode |-> Unset]
IdleCall == [phase |-> "idle", step |-> "none", url |-> Unset, method |-> "GET",
             body |-> UndefinedBody, bodyArg |-> UndefinedBody,
             over |-> EmptyMap, refresh |-> TRUE, status |-> 0,
             sent |-> NotSent, via |-> "fetch", result |-> Pending,
             token |-> Null, outcome |-> Pending,
             origStatus |-> 0, lastStatus |-> 0, parsed |-> Null,
             threw |-> FALSE,
             nTransport |-> 0, nAcquire |-> 0, nRetry |-> 0]

\* ------------------------------------------------- the body encoding ----
\* body instanceof FormData
IsFormData(body) == body.kind = "FormData"
\* if (body): undefined and null are falsy, an object is truthy
TruthyBody(body) == body.kind \notin {"undefined", "null"}
\* Object.values(data).find(el => el instanceof File || el instanceof FileList)
HasFile(data) ==
    /\ data.kind = "object"
    /\ \E i \in DOMAIN data.entries :
           data.entries[i].value.kind \in {"File", "FileList"}
\* arr.find(el => el instanceof File)
HasFileItem(items) == \E i \in DOMAIN items : items[i].kind = "File"

RECURSIVE Flatten(_)
Flatten(ss) == IF Len(ss) = 0 THEN <<>> ELSE Head(ss) \o Flatten(Tail(ss))

\* JSON.stringify and JSON.parse.  The text is kept as the JSON value it
\* denotes: a File is written as {}, a FileList as an object holding {}
\* under each index.
RECURSIVE ToJson(_)
ToJson(v) ==
    CASE v.kind = "File" -> Object(<<>>)
      [] v.kind = "FileList" ->
            Object([i \in DOMAIN v.files |-> Entry(ToString(i - 1), Object(<<>>))])
      [] v.kind = "Array" -> Array([i \in DOMAIN v.items |-> ToJson(v.items[i])])
      [] v.kind = "object" ->
            Object([i \in DOMAIN v.entries |->
                       Entry(v.entries[i].key, ToJson(v.entries[i].value))])
      [] OTHER -> v
Stringify(v) == [kind |-> "text", json |-> ToJson(v)]
Parse(text) == text.json

\* FormData.append(name, value): a value that is no File is kept as a string
Appended(v) == IF v.kind = "File" THEN v ELSE [kind |-> "string", of |-> v]

\* toFormData, the fields one key adds to formDataWithFiles
FileFieldsOf(e) ==
    CASE e.value.kind = "File" -> <<Field(e.key, e.value)>>
      [] e.value.kind = "FileList" ->
            [i \in DOMAIN e.value.files |-> Field(e.key, File(e.value.files[i]))]
      [] e.value.kind = "Array" /\ HasFileItem(e.value.items) ->
            [i \in DOMAIN e.value.items |-> Field(e.key, Appended(e.value.items[i]))]
      [] OTHER -> <<>>
\* (a faulty variant: every key is copied to jsonData)
JsonEntriesOfAll(e) == <<e>>
\* toFormData, what one key adds to jsonData
JsonEntriesOf(e) ==
    CASE e.value.kind \in {"File", "FileList"} -> <<>>
      [] e.value.kind = "Array" /\ HasFileItem(e.value.items) -> <<>>
      [] OTHER -> <<e>>

\* toFormData: the serialized-json field, then the fields of
\* formDataWithFiles
ToFormData(data) ==
    LET formDataWithFiles ==
            Flatten([i \in DOMAIN data.entries |-> FileFieldsOf(data.entries[i])])
        jsonData ==
            Object(Flatten([i \in DOMAIN data.entries |-> JsonEntriesOf(data.entries[i])]))
    IN FormDataOf(<<Field("serialized-json", Stringify(jsonData))>>
                  \o formDataWithFiles)

\* (a faulty variant: the header collection is left as another encoding
\* step made it)
FwrEncodeKeepsHeaders(body, hdrs) == [body |-> body, headers |-> hdrs]
\* Fwr.fetch, the Content-Type rule
FwrEncode(body, hdrs) ==
    [body |-> body,
     headers |-> IF IsFormData(body)
                 THEN MapDelete(hdrs, "Content-Type")
                 ELSE MapSet(hdrs, "Content-Type", "application/json")]

\* (a faulty variant: the conversion flag is looked at before the body is
\* tested for being a FormData)
FetchApiEncodeFlagFirst(body, convert, hdrs) ==
    IF TruthyBody(body) /\ convert
    THEN IF HasFile(body)
         THEN [body |-> ToFormData(body),
               headers |-> MapDelete(hdrs, "Content-Type")]
         ELSE [body |-> body,
               headers |-> MapSet(hdrs, "Content-Type", "application/json")]
    ELSE IF IsFormData(body)
         THEN [body |-> body, headers |-> MapDelete(hdrs, "Content-Type")]
         ELSE [body |-> body,
               headers |-> MapSet(hdrs, "Content-Type", "application/json")]
\* FetchApi.fetch, the Content-Type rule and the conversion
FetchApiEncode(body, convert, hdrs) ==
    IF IsFormData(body)
    THEN [body |-> body, headers |-> MapDelete(hdrs, "Content-Type")]
    ELSE IF TruthyBody(body) /\ convert
         THEN IF HasFile(body)
              THEN [body |-> ToFormData(body),
                    headers |-> MapDelete(hdrs, "Content-Type")]
              ELSE [body |-> body,
                    headers |-> MapSet(hdrs, "Content-Type", "application/json")]
         ELSE [body |-> body,
               headers |-> MapSet(hdrs, "Content-Type", "application/json")]

\* FetchApi of part_001: the conversion flag is looked at first, the gate
\* looks for a File only, and a body that is a FormData has no own
\* enumerable members
TsHasFile(data) ==
    /\ data.kind = "object"
    /\ \E i \in DOMAIN data.entries : data.entries[i].value.kind = "File"
TsEncode(body, convert, hdrs) ==
    IF convert
    THEN IF TsHasFile(body)
         THEN [body |-> ToFormData(body), headers |-> MapDelete(hdrs, "Content-Type")]
         ELSE [body |-> body,
               headers |-> MapSet(hdrs, "Content-Type", "application/json")]
    ELSE FwrEncode(body, hdrs)

\* the class whose control flow, error record and constructor the client
\* has: FetchApi of part_001 has those of Fwr
FwrLike(v) == v \in {"Fwr", "FetchApiTs"}

Encode(body, hdrs) ==
    CASE variant = "Fwr" -> FwrEncode(body, hdrs)
      [] variant = "FetchApiTs" -> TsEncode(body, convertToFormData, hdrs)
      [] OTHER -> FetchApiEncode(body, convertToFormData, hdrs)

\* Object.values(data) of part_001 throws a TypeError for an undefined or
\* null body; the encoding steps of the other classes do not throw
EncodeThrows(body) ==
    variant = "FetchApiTs" /\ convertToFormData /\ ~TruthyBody(body)

\* ------------------------------------------------------- the dispatch ----
\* (a faulty variant: an absent body is serialized as it is)
WireBodyNoDefault(body) ==
    IF IsFormData(body) THEN body ELSE Stringify(body)
\* body instanceof FormData ? body : JSON.stringify(body ?? {})
WireBody(body) ==
    IF IsFormData(body) THEN body
    ELSE Stringify(IF body.kind \in {"undefined", "null"} THEN Object(<<>>) ELSE body)

\* args after `if (method === 'PATCH' || method === 'POST')`
CallArgs(method, body, over) ==
    IF method = "PATCH" \/ method = "POST"
    THEN Merge(over, [method |-> method, body |-> WireBody(body)])
    ELSE over

\* { method, ...this.options, ...args }
RequestInit(method, opts, args) ==
    [k \in {"method"} \cup DOMAIN opts \cup DOMAIN args |->
        IF k \in DOMAIN args THEN args[k]
        ELSE IF k \in DOMAIN opts THEN opts[k] ELSE method]

\* fetch(this.baseUrl + url, init): the request the transport builds when it
\* is called; it reads the header collection then
Sent(url, method, body, over, hdrs) ==
    LET init == RequestInit(method, options, CallArgs(method, body, over)) IN
    [url |-> BaseUrl \o url,
     method |-> init.method,
     body |-> IF Has(init, "body") THEN init.body ELSE NoBody,
     contentType |-> IF init.headers = "this.headers"
                     THEN Opt(hdrs, "Content-Type") ELSE "(other)",
     credentials |-> Opt(init, "credentials"),
     cache |-> Opt(init, "cache"),
     mode |-> Opt(init, "mode")]

\* ---------------------------------------------------- the constructor ----
defaultOptions == [credentials |-> "include", cache |-> "no-cache", mode |-> "cors"]
HeadersRef == [headers |-> "this.headers"]
\* Fwr: { headers: this.headers, ...options?.options } ?? { ... }; the left
\* operand of ?? is an object, never nullish
FwrOptions(given) ==
    Merge(HeadersRef, IF given.given THEN given.options ELSE EmptyMap)
\* FetchApi: options?.options ? { headers, ...options } : { headers, ...defaultOptions }
FetchApiOptions(given) ==
    IF given.given THEN Merge(HeadersRef, given.options)
    ELSE Merge(HeadersRef, defaultOptions)
StoredOptions(v, given) ==
    IF FwrLike(v) THEN FwrOptions(given) ELSE FetchApiOptions(given)

\* ------------------------------------------------- response handling ----
\* (a faulty variant: 201 is not taken for a success)
IsSuccessOnly200(status) == status = 200
\* response.status === 201 || response.status === 200
IsSuccess(status) == status = 201 \/ status = 200

\* (a faulty variant: the token GET keeps the default refresh)
TokenGetRefreshKept == TRUE
\* the refresh argument of the token GET
TokenGetRefresh == FALSE

\* (a faulty variant: the retried request keeps the default refresh)
RetryRefreshKept == TRUE
\* the refresh argument of the retried request
RetryRefresh == FALSE

\* (a faulty variant: the refresh argument of the call is not looked at)
FrameRefreshOfAnyCall(call) == call.phase = "orig"
\* the refresh argument of the frame that is running
FrameRefresh(call) ==
    CASE call.phase = "orig" -> call.refresh
      [] call.phase = "token" -> TokenGetRefresh
      [] call.phase = "retry" -> RetryRefresh
      [] OTHER -> FALSE

\* if (this.tokenSource)
Configured(src) == src # "none"

\* if (token)
Truthy(v) == v.kind = "object"

\* the value error(res) throws once res.json() has settled with err
FwrError(status, err) ==
    CASE err.kind = "unparseable" -> SyntaxError
      [] err.kind = "null" -> TypeError
      [] OTHER -> [status |-> status, message |-> err.message, errors |-> err.errors]

FetchApiError(status, err) ==
    CASE err.kind = "unparseable" -> SyntaxError
      [] err.kind = "null" -> TypeError
      [] OTHER -> [status |-> status, message |-> err.message, fields |-> err.fields]

ErrorValue(status, err) ==
    IF FwrLike(variant) THEN FwrError(status, err) ELSE FetchApiError(status, err)

\* (a faulty variant: the header is not written)
TokenHeadersSkipped(hdrs, token) == hdrs
\* (a faulty variant: a header another refresh has set is kept)
TokenHeadersKeptIfSet(hdrs, token) ==
    IF Truthy(token) /\ ~Has(hdrs, "Authorization")
    THEN MapSet(hdrs, "Authorization", Bearer(token.accessToken))
    ELSE hdrs
\* the two writes of refreshToken
TokenHeaders(hdrs, token) ==
    IF Truthy(token)
    THEN MapSet(hdrs, "Authorization", Bearer(token.accessToken))
    ELSE hdrs

\* (a faulty variant: the token is not persisted)
TokenStoreSkipped(store, token) == store
TokenStore(store, token) ==
    IF Truthy(token)
    THEN MapSet(store, "accessToken", token.accessToken)
    ELSE store

\* ------------------------------------------------------------- Init ----
\* The client after construction.  The header collection is seeded from the
\* caller's headers (here: none, or an Authorization header); localStorage
\* is the browser's and may hold a token of an earlier session.  auth0 and
\* store0 remember both.
Init ==
    /\ variant \in Variants
    /\ tokenSource \in TokenSources
    /\ convertToFormData \in (IF variant = "Fwr" THEN {FALSE} ELSE BOOLEAN)
    /\ callerOptions = NotGiven
    /\ options = StoredOptions(variant, callerOptions)
    /\ headers \in {EmptyMap, MapSet(EmptyMap, "Authorization", Bearer("t1"))}
    /\ localStorage \in {EmptyMap, MapSet(EmptyMap, "accessToken", "t1")}
    /\ calls = [c \in Slots |-> IdleCall]
    /\ auth0 = Has(headers, "Authorization")
    /\ store0 = localStorage
    /\ lastOp = "other"

config == <<variant, tokenSource, convertToFormData, callerOptions, options,
            auth0, store0>>

\* the promise of the call settles (the frames and their locals are gone)
\* baseQuery: try { return { data: await this.fetch(args) } }
\*            catch (e) { return { error: e } }
\* (a faulty variant: a caught error is thrown again)
BaseQueryResultRethrown(outcome) ==
    IF outcome.kind = "resolved" THEN Resolved([data |-> outcome.value])
    ELSE outcome
BaseQueryResult(outcome) ==
    IF outcome.kind = "resolved" THEN Resolved([data |-> outcome.value])
    ELSE Resolved([error |-> outcome.value])

Settle(call, outcome) ==
    [call EXCEPT !.phase = "done", !.step = "none", !.token = Null,
                 !.outcome = outcome,
                 !.result = IF call.via = "baseQuery" THEN BaseQueryResult(outcome)
                            ELSE outcome]

\* ------------------------------------------------------------ fetch ----
\* fetch({url, method, body, refresh}): the encoding step and the dispatch
FetchAs(c, url, method, body, refresh, over, via, op) ==
    /\ calls[c].phase \in {"idle", "done"}
    /\ IF EncodeThrows(body)
       THEN /\ headers' = headers
            /\ calls' = [calls EXCEPT ![c] =
                   Settle([IdleCall EXCEPT !.url = url, !.method = method,
                                           !.body = body, !.bodyArg = body,
                                           !.refresh = refresh, !.over = over,
                                           !.via = via],
                          Rejected(TypeError))]
       ELSE LET enc == Encode(body, headers) IN
              /\ headers' = enc.headers
              /\ calls' = [calls EXCEPT ![c] =
                     [IdleCall EXCEPT !.phase = "orig", !.step = "transport",
                                      !.url = url, !.method = method,
                                      !.body = enc.body, !.bodyArg = body,
                                      !.refresh = refresh, !.over = over,
                                      !.sent = Sent(url, method, enc.body, over, enc.headers),
                                      !.via = via, !.nTransport = 1]]
    /\ lastOp' = op
    /\ UNCHANGED <<config, localStorage>>

Fetch(c, method, body, refresh) ==
    \E url \in Urls : FetchAs(c, url, method, body, refresh, EmptyMap, "fetch", "other")

\* the response as the frame that awaited it sees it
Received(call, status) ==
    [call EXCEPT !.status = status,
                 !.origStatus = IF call.phase = "orig" THEN status ELSE @,
                 !.lastStatus = IF call.phase \in {"orig", "retry"} THEN status ELSE @]

\* whether fetch hands the response to refreshToken
CallsRefreshToken(call, status) ==
    IF FwrLike(variant)
    THEN status = 401 /\ FrameRefresh(call) /\ Configured(tokenSource)
    ELSE status = 401 /\ FrameRefresh(call)

\* status 200 or 201: return response.json()
RespondOk(c, status) ==
    /\ calls[c].step = "transport"
    /\ IsSuccess(status)
    /\ calls' = [calls EXCEPT ![c] = [Received(@, status) EXCEPT !.step = "json"]]
    /\ lastOp' = "other"
    /\ UNCHANGED <<config, headers, localStorage>>

\* (a faulty variant: the catch block falls through to the retry)
TokenThrewRetried(call) ==
    [call EXCEPT !.threw = TRUE, !.phase = "retry", !.step = "transport",
                 !.nTransport = @ + 1, !.nRetry = @ + 1]
\* the catch block of refreshToken
TokenThrew(call) ==
    IF FwrLike(variant)
    THEN Settle([call EXCEPT !.threw = TRUE], Rejected(FailedToGetToken))
    ELSE [call EXCEPT !.threw = TRUE, !.phase = "abort", !.step = "errjson",
                      !.status = call.origStatus]

\* status 401 handed to refreshToken of a client with a token source:
\* the token GET is dispatched, or the callable is called
RespondRefresh(c) ==
    /\ calls[c].step = "transport"
    /\ ~IsSuccess(401)
    /\ CallsRefreshToken(calls[c], 401)
    /\ Configured(tokenSource)
    /\ IF tokenSource = "string" /\ EncodeThrows(UndefinedBody)
       THEN /\ headers' = headers
            /\ calls' = [calls EXCEPT ![c] =
                   TokenThrew([Received(@, 401) EXCEPT !.phase = "token",
                                                       !.nAcquire = @ + 1])]
       ELSE IF tokenSource = "string"
       THEN /\ calls[c].nTransport < MaxTransport
            /\ headers' = Encode(UndefinedBody, headers).headers
            /\ calls' = [calls EXCEPT ![c] =
                   [Received(@, 401) EXCEPT !.phase = "token", !.step = "transport",
                                            !.sent = Sent(TokenPath, "GET", UndefinedBody,
                                                          EmptyMap, headers'),
                                            !.nTransport = @ + 1, !.nAcquire = @ + 1]]
       ELSE /\ headers' = headers
            /\ calls' = [calls EXCEPT ![c] =
                   [Received(@, 401) EXCEPT !.phase = "token", !.step = "callable",
                                            !.nAcquire = @ + 1]]
    /\ lastOp' = "other"
    /\ UNCHANGED <<config, localStorage>>

\* status 401 handed to refreshToken of a client without a token source
RespondNoSource(c) ==
    /\ calls[c].step = "transport"
    /\ ~IsSuccess(401)
    /\ CallsRefreshToken(calls[c], 401)
    /\ ~Configured(tokenSource)
    /\ localStorage' = MapDelete(localStorage, "accessToken")
    /\ calls' = [calls EXCEPT ![c] =
           IF FwrLike(variant)
           THEN Settle(Received(@, 401), Rejected([message |-> "Failed to refresh token"]))
           ELSE [Received(@, 401) EXCEPT !.step = "errjson"]]
    /\ lastOp' = "other"
    /\ UNCHANGED <<config, headers>>

\* any other status: return this.error(response)
RespondError(c, status) ==
    /\ calls[c].step = "transport"
    /\ ~IsSuccess(status)
    /\ ~CallsRefreshToken(calls[c], status)
    /\ calls' = [calls EXCEPT ![c] = [Received(@, status) EXCEPT !.step = "errjson"]]
    /\ lastOp' = "other"
    /\ UNCHANGED <<config, headers, localStorage>>

\* refreshToken once the token is there: the two writes and the retry
TokenObtained(c, token) ==
    /\ calls[c].nTransport < MaxTransport
    /\ localStorage' = TokenStore(localStorage, token)
    /\ LET enc == Encode(calls[c].body, TokenHeaders(headers, token)) IN
         /\ headers' = enc.headers
         /\ calls' = [calls EXCEPT ![c] =
                [@ EXCEPT !.phase = "retry", !.step = "transport",
                          !.token = token, !.parsed = token, !.body = enc.body,
                          !.over = EmptyMap,
                          !.sent = Sent(calls[c].url, calls[c].method, enc.body,
                                        EmptyMap, enc.headers),
                          !.nTransport = @ + 1, !.nRetry = @ + 1]]

\* the transport call rejects (no response)
TransportFail(c) ==
    /\ calls[c].step = "transport"
    /\ calls' = [calls EXCEPT ![c] =
           IF @.phase = "token" THEN TokenThrew(@) ELSE Settle(@, Rejected(NetworkError))]
    /\ lastOp' = "other"
    /\ UNCHANGED <<config, headers, localStorage>>

\* response.json() of a 200/201 response settles: the call resolves with the
\* parsed body, or rejects when the body is no JSON
ParseJson(c, b) ==
    /\ calls[c].step = "json"
    /\ calls[c].phase \in {"orig", "retry"}
    /\ calls' = [calls EXCEPT ![c] =
           Settle([@ EXCEPT !.parsed = b],
                  IF b = Unparseable THEN Rejected(SyntaxError) ELSE Resolved(b))]
    /\ lastOp' = "other"
    /\ UNCHANGED <<config, headers, localStorage>>

\* response.json() of the token GET settles with a JSON value
ParseToken(c, b) ==
    /\ calls[c].step = "json"
    /\ calls[c].phase = "token"
    /\ b # Unparseable
    /\ TokenObtained(c, b)
    /\ lastOp' = "other"
    /\ UNCHANGED config

\* response.json() of the token GET rejects
ParseTokenFail(c) ==
    /\ calls[c].step = "json"
    /\ calls[c].phase = "token"
    /\ calls' = [calls EXCEPT ![c] = TokenThrew([@ EXCEPT !.parsed = Unparseable])]
    /\ lastOp' = "other"
    /\ UNCHANGED <<config, headers, localStorage>>

\* error(res): res.json() settles and the error is thrown
ParseError(c, b) ==
    /\ calls[c].step = "errjson"
    /\ calls' = [calls EXCEPT ![c] =
           IF @.phase = "token"
           THEN TokenThrew([@ EXCEPT !.parsed = b])
           ELSE Settle([@ EXCEPT !.parsed = b], Rejected(ErrorValue(@.status, b)))]
    /\ lastOp' = "other"
    /\ UNCHANGED <<config, headers, localStorage>>

\* the callable token source resolves
CallableResolve(c, v) ==
    /\ calls[c].step = "callable"
    /\ TokenObtained(c, v)
    /\ lastOp' = "other"
    /\ UNCHANGED config

\* the callable token source rejects
CallableReject(c) ==
    /\ calls[c].step = "callable"
    /\ calls' = [calls EXCEPT ![c] = TokenThrew(@)]
    /\ lastOp' = "other"
    /\ UNCHANGED <<config, headers, localStorage>>

\* ------------------------------------- setAuthHeader, deleteAuthHeader ----
\* (a faulty variant: the header is written whether a token is persisted
\* or not)
SetAuthHeadersUnguarded(hdrs, store, fingerprint) ==
    LET h1 == IF fingerprint \notin {Undefined, ""}
              THEN MapSet(hdrs, "Fingerprint", fingerprint) ELSE hdrs
    IN MapSet(h1, "Authorization",
              Bearer(IF Has(store, "accessToken") THEN store["accessToken"] ELSE ""))
\* setAuthHeader: the Fingerprint header when a fingerprint is given, the
\* Authorization header when getItem('accessToken') is truthy
SetAuthHeaders(hdrs, store, fingerprint) ==
    LET h1 == IF fingerprint \notin {Undefined, ""}
              THEN MapSet(hdrs, "Fingerprint", fingerprint) ELSE hdrs
    IN IF Has(store, "accessToken") /\ store["accessToken"] # ""
       THEN MapSet(h1, "Authorization", Bearer(store["accessToken"]))
       ELSE h1

SetAuthHeader(fingerprint) ==
    /\ headers' = SetAuthHeaders(headers, localStorage, fingerprint)
    /\ lastOp' = "setAuthHeader"
    /\ UNCHANGED <<config, localStorage, calls>>

DeleteAuthHeaders(hdrs) == MapDelete(hdrs, "Authorization")
\* (a faulty variant: the persisted token is kept)
DeleteAuthStoreSkipped(store) == store
DeleteAuthStore(store) == MapDelete(store, "accessToken")

DeleteAuthHeader ==
    /\ headers' = DeleteAuthHeaders(headers)
    /\ localStorage' = DeleteAuthStore(localStorage)
    /\ lastOp' = "deleteAuthHeader"
    /\ UNCHANGED <<config, calls>>

\* ------------------------------------------------------------- Next ----
\* One call at a time on the client (slot 1), with setAuthHeader and
\* deleteAuthHeader at any point, also while the call is suspended.  The
\* four methods fall into two classes in fetch: GET stands for GET and
\* DELETE, POST for POST and PATCH.
CallMethods == {"GET", "POST"}

\* the steps of a call that the transport, the body parse and the callable
\* token source take
Progress(c) ==
    \/ \E s \in Statuses : RespondOk(c, s)
    \/ RespondRefresh(c)
    \/ RespondNoSource(c)
    \/ \E s \in Statuses : RespondError(c, s)
    \/ TransportFail(c)
    \/ \E b \in ResponseBodies : ParseJson(c, b)
    \/ \E b \in JsonValues : ParseToken(c, b)
    \/ ParseTokenFail(c)
    \/ \E b \in ResponseBodies : ParseError(c, b)
    \/ \E v \in JsonValues : CallableResolve(c, v)
    \/ CallableReject(c)

Next ==
    \/ \E c \in Slots, m \in CallMethods, b \in RequestBodies, r \in BOOLEAN :
          Fetch(c, m, b, r)
    \/ \E c \in Slots : Progress(c)
    \/ \E f \in Fingerprints : SetAuthHeader(f)
    \/ DeleteAuthHeader

Spec == Init /\ [][Next]_vars

\* A FetchApi client whose transport calls, body parses and token-source
\* calls all settle: a suspended call is always resumed.
InitLive ==
    /\ Init
    /\ variant = "FetchApi"
    /\ ~auth0
    /\ store0 = EmptyMap

LiveSpec == InitLive /\ [][Next]_vars /\ \A c \in Slots : WF_vars(Progress(c))

\* A client of either class that is left alone while its calls run: no
\* setAuthHeader or deleteAuthHeader, one call at a time, made with or
\* without refresh.  Header and store may hold a token of an earlier
\* session.
NextQuiet ==
    \/ \E c \in Slots, m \in CallMethods, r \in BOOLEAN : Fetch(c, m, JsonBody, r)
    \/ \E c \in Slots : Progress(c)

QuietSpec == Init /\ [][NextQuiet]_vars

\* ------------------------------------------------- the wire of a call ----
\* A client of either class, with or without caller-supplied fetch options,
\* whose constructor was given a Content-Type header, making one call at a
\* time with any method, with or without per-call overrides, and with a
\* body that is absent, null, a plain object, an object holding a File, or
\* a pre-built FormData.
CallerOptions == {NotGiven, Given([mode |-> "no-cors"]), Given([method |-> "POST"])}
Overrides == {EmptyMap, [mode |-> "same-origin"]}
WireBodies == {UndefinedBody, Null, JsonBody, FileBody, PrebuiltForm}

InitWire ==
    /\ variant \in Variants
    /\ tokenSource \in TokenSources
    /\ convertToFormData \in (IF variant = "Fwr" THEN {FALSE} ELSE BOOLEAN)
    /\ callerOptions \in CallerOptions
    /\ options = StoredOptions(variant, callerOptions)
    /\ headers = MapSet(EmptyMap, "Content-Type", "text/plain")
    /\ localStorage = EmptyMap
    /\ calls = [c \in Slots |-> IdleCall]
    /\ auth0 = FALSE
    /\ store0 = EmptyMap
    /\ lastOp = "other"

\* fetch({url, method, body, ...over})
FetchWith(c, method, body, over) ==
    \E url \in Urls : FetchAs(c, url, method, body, TRUE, over, "fetch", "other")

NextWire ==
    \/ \E c \in Slots, m \in Methods, b \in WireBodies, o \in Overrides :
          FetchWith(c, m, b, o)
    \/ \E c \in Slots : Progress(c)

WireSpec == InitWire /\ [][NextWire]_vars

\* ------------------------------------------- FetchApi of part_001 ----
\* A client of the FetchApi class of part_001, with the conversion enabled
\* or not, whose constructor was given a Content-Type header, making one
\* call at a time with any method and a body that is absent, null, a plain
\* object, an object holding a File, or a pre-built FormData.
InitTs ==
    /\ variant = "FetchApiTs"
    /\ tokenSource \in TokenSources
    /\ convertToFormData \in BOOLEAN
    /\ callerOptions = NotGiven
    /\ options = StoredOptions(variant, callerOptions)
    /\ headers = MapSet(EmptyMap, "Content-Type", "text/plain")
    /\ localStorage = EmptyMap
    /\ calls = [c \in Slots |-> IdleCall]
    /\ auth0 = FALSE
    /\ store0 = EmptyMap
    /\ lastOp = "other"

\* the steps of a call of this class: refreshToken is entered with a token
\* source only
ProgressTs(c) ==
    \/ \E s \in Statuses : RespondOk(c, s)
    \/ RespondRefresh(c)
    \/ \E s \in Statuses : RespondError(c, s)
    \/ TransportFail(c)
    \/ \E b \in ResponseBodies : ParseJson(c, b)
    \/ \E b \in JsonValues : ParseToken(c, b)
    \/ ParseTokenFail(c)
    \/ \E b \in ResponseBodies : ParseError(c, b)
    \/ \E v \in JsonValues : CallableResolve(c, v)
    \/ CallableReject(c)

NextTs ==
    \/ \E c \in Slots, m \in Methods, b \in WireBodies : FetchWith(c, m, b, EmptyMap)
    \/ \E c \in Slots : ProgressTs(c)

TsSpec == InitTs /\ [][NextTs]_vars

\* ------------------------------------- the shorthands and baseQuery ----
\* the destructuring { url, method = 'GET', body, refresh = true, ...args }
\* of the argument object of fetch
ArgMethod(a) == IF Has(a, "method") THEN a.method ELSE "GET"
ArgBody(a) == IF Has(a, "body") THEN a.body ELSE UndefinedBody
ArgRefresh(a) == IF Has(a, "refresh") THEN a.refresh ELSE TRUE
ArgRest(a) == [k \in DOMAIN a \ {"url", "method", "body", "refresh"} |-> a[k]]

\* this.fetch(a), entered through via
Request(c, a, via, op) ==
    FetchAs(c, a.url, ArgMethod(a), ArgBody(a), ArgRefresh(a), ArgRest(a), via, op)

\* the argument objects the shorthands build
GetArgs(url) == [url |-> url]
PostArgs(url, body) == [url |-> url, method |-> "POST", body |-> body]
PatchArgs(url, body) == [url |-> url, method |-> "PATCH", body |-> body]
\* (a faulty variant: the method is left out)
DeleteArgsNoMethod(url) == [url |-> url]
DeleteArgs(url) == [url |-> url, method |-> "DELETE"]

Get(c, url) == Request(c, GetArgs(url), "fetch", "get")
Post(c, url, body) == Request(c, PostArgs(url, body), "fetch", "post")
Patch(c, url, body) == Request(c, PatchArgs(url, body), "fetch", "patch")
Delete(c, url) == Request(c, DeleteArgs(url), "fetch", "delete")
\* fetch(a) called by the application
FetchArgs(c, a) == Request(c, a, "fetch", "fetch")
\* baseQuery(a): awaits this.fetch(a) (Settle wraps what it settles with)
BaseQuery(c, a) == Request(c, a, "baseQuery", "baseQuery")

\* A client of either class without caller-supplied options, called
\* through fetch, the four shorthands and baseQuery, one call at a time.
ApiBodies == {UndefinedBody, JsonBody}
ApiArgs ==
    {[url |-> u] : u \in Urls}
    \cup {[url |-> u, method |-> m] : u \in Urls, m \in Methods}
    \cup {[url |-> u, method |-> m, body |-> b] :
             u \in Urls, m \in {"POST", "PATCH"}, b \in ApiBodies}
    \cup {[url |-> u, refresh |-> FALSE] : u \in Urls}
    \cup {[url |-> u, method |-> "POST", body |-> JsonBody, mode |-> "same-origin"] :
             u \in Urls}

InitApi ==
    /\ variant \in Variants
    /\ tokenSource \in TokenSources
    /\ convertToFormData = FALSE
    /\ callerOptions = NotGiven
    /\ options = StoredOptions(variant, callerOptions)
    /\ headers = EmptyMap
    /\ localStorage = EmptyMap
    /\ calls = [c \in Slots |-> IdleCall]
    /\ auth0 = FALSE
    /\ store0 = EmptyMap
    /\ lastOp = "other"

NextApi ==
    \/ \E c \in Slots, a \in ApiArgs : FetchArgs(c, a)
    \/ \E c \in Slots, u \in Urls : Get(c, u)
    \/ \E c \in Slots, u \in Urls, b \in ApiBodies : Post(c, u, b)
    \/ \E c \in Slots, u \in Urls, b \in ApiBodies : Patch(c, u, b)
    \/ \E c \in Slots, u \in Urls : Delete(c, u)
    \/ \E c \in Slots, a \in ApiArgs : BaseQuery(c, a)
    \/ \E c \in Slots : Progress(c)

ApiSpec == InitApi /\ [][NextApi]_vars

\* ------------------------------------------------- concurrent calls ----
\* A client of either class with a token source on which MaxCalls calls are
\* made; a call may be started while others are suspended at an await.  The
\* calls are POSTs made with refresh on, with a plain object or a pre-built
\* FormData as body.
ConcBodies == {JsonBody, PrebuiltForm}
ConcResponses == {Obj("m", "e", "f", Undefined)}
\* what the token source answers: null, an object without accessToken, an
\* object with one
ConcTokens == {Null, Obj("m", "e", "f", Undefined),
               Obj(Undefined, Undefined, Undefined, "t1")}

InitConc ==
    /\ variant \in Variants
    /\ tokenSource \in {"string", "callable"}
    /\ convertToFormData = FALSE
    /\ callerOptions = NotGiven
    /\ options = StoredOptions(variant, callerOptions)
    /\ headers = EmptyMap
    /\ localStorage = EmptyMap
    /\ calls = [c \in Calls |-> IdleCall]
    /\ auth0 = FALSE
    /\ store0 = EmptyMap
    /\ lastOp = "other"

\* the first call of a slot
FetchOnce(c, body) ==
    /\ calls[c].phase = "idle"
    /\ FetchWith(c, "POST", body, EmptyMap)

ProgressConc(c) ==
    \/ RespondOk(c, 200)
    \/ RespondRefresh(c)
    \/ RespondError(c, 500)
    \/ TransportFail(c)
    \/ \E b \in ConcResponses : ParseJson(c, b)
    \/ \E b \in ConcTokens : ParseToken(c, b)
    \/ ParseTokenFail(c)
    \/ \E b \in ConcResponses : ParseError(c, b)
    \/ \E v \in ConcTokens : CallableResolve(c, v)
    \/ CallableReject(c)

NextConc ==
    \/ \E c \in Calls, b \in ConcBodies : FetchOnce(c, b)
    \/ \E c \in Calls : ProgressConc(c)

ConcSpec == InitConc /\ [][NextConc]_vars

\* The same client when every transport call, body parse and token-source
\* call that a call waits for settles.
ConcLiveSpec ==
    InitConc /\ [][NextConc]_vars /\ \A c \in Calls : WF_vars(ProgressConc(c))

\* ------------------------------------------------------ the conversion ----
\* The first call of a FetchApi client, with the conversion enabled or not
\* and with or without a Content-Type among the constructor's headers: the
\* post of an object of up to MaxKeys keys, each holding a plain value, a
\* File, a FileList (empty or not) or an array (of Files, of plain values,
\* or of both).
Keys == {"a", "f", "g"}
Values ==
    {Plain(1), File("F1"), FileList(<<>>), FileList(<<"F1", "F2">>),
     Array(<<File("F1"), File("F2")>>), Array(<<File("F1"), Plain(2)>>),
     Array(<<Plain(1), Plain(2)>>)}
KeySeqs(n) == {ks \in [1..n -> Keys] : \A i, j \in 1..n : i # j => ks[i] # ks[j]}
FormBodies ==
    UNION {{Object([i \in 1..n |-> Entry(ks[i], vs[i])]) :
               ks \in KeySeqs(n), vs \in [1..n -> Values]} : n \in 1..MaxKeys}

InitForm ==
    /\ variant = "FetchApi"
    /\ tokenSource = "none"
    /\ convertToFormData \in BOOLEAN
    /\ callerOptions = NotGiven
    /\ options = StoredOptions(variant, callerOptions)
    /\ headers \in {EmptyMap, MapSet(EmptyMap, "Content-Type", "text/plain")}
    /\ localStorage = EmptyMap
    /\ calls = [c \in Slots |-> IdleCall]
    /\ auth0 = FALSE
    /\ store0 = EmptyMap
    /\ lastOp = "other"

NextForm ==
    \E c \in Slots, b \in FormBodies : FetchWith(c, "POST", b, EmptyMap)

FormSpec == InitForm /\ [][NextForm]_vars

\* ----------------------------------------------------------- claims ----
Done(c) == calls[c].phase = "done"
IsResolved(c) == calls[c].outcome.kind = "resolved"
IsRejected(c) == calls[c].outcome.kind = "rejected"
AuthSet == Has(headers, "Authorization")
TokenPersisted == Has(localStorage, "accessToken")
\* a call made with refresh=true on a client with a token source whose
\* original response had status 401
Refreshing(c) ==
    calls[c].refresh /\ tokenSource # "none" /\ calls[c].origStatus = 401

\* C1 (as stated): a settled call with refresh=true on a client with a token
\* source whose response had status 401 has dispatched exactly one retried
\* request, and when the retry got 401 too there was one token acquisition
\* only and the call rejected.
C1_ExactlyOneRetry ==
    \A c \in Slots :
        (Done(c) /\ Refreshing(c)) =>
            /\ calls[c].nRetry = 1
            /\ (calls[c].lastStatus = 401 => IsRejected(c) /\ calls[c].nAcquire = 1)

\* C1 (amended): such a call dispatches at most one retried request, exactly
\* one when the token acquisition did not throw and none when it threw; the
\* retry runs with refresh=false; when the retry got 401 too there was one
\* token acquisition only, no further request, and the call rejected.
C1_OneRetryUnlessTokenThrew ==
    \A c \in Slots :
        Refreshing(c) =>
            /\ calls[c].nRetry <= 1 /\ calls[c].nAcquire <= 1
            /\ (calls[c].phase = "retry" => ~FrameRefresh(calls[c]))
            /\ (Done(c) => calls[c].nRetry = (IF calls[c].threw THEN 0 ELSE 1))
            /\ (Done(c) /\ calls[c].nRetry = 1 /\ calls[c].lastStatus = 401 =>
                    IsRejected(c) /\ calls[c].nAcquire = 1
                    /\ calls[c].nTransport <= 3)

\* witness of C1: a call whose retry after the refresh got 401 again
C1_Witness ==
    \E c \in Slots :
        Done(c) /\ Refreshing(c) /\ calls[c].nRetry = 1
        /\ calls[c].lastStatus = 401 /\ IsRejected(c)

\* C2: on a FetchApi client constructed without an Authorization header
\* whose store holds only what the client wrote (a client without a token
\* source never persists a token), a set Authorization header means that a
\* token is persisted and the header is "Bearer " followed by it.
C2_HeaderMatchesStore ==
    (variant = "FetchApi" /\ ~auth0 /\ (tokenSource = "none" => store0 = EmptyMap)) =>
        (AuthSet =>
            TokenPersisted
            /\ headers["Authorization"] = "Bearer " \o localStorage["accessToken"])

\* witness of C2: the header is set, after a refresh that wrote a token
C2_Witness ==
    /\ variant = "FetchApi" /\ ~auth0 /\ store0 = EmptyMap
    /\ AuthSet /\ TokenPersisted
    /\ \E c \in Slots : calls[c].nRetry = 1 /\ Done(c)

\* C3 (as stated): on a Fwr client without a token source, a settled call
\* with refresh=true whose response had status 401 has removed the
\* persisted token, has rejected, and has made no further request.
C3_NoSourceClearsToken ==
    \A c \in Slots :
        (variant = "Fwr" /\ tokenSource = "none" /\ Done(c)
            /\ calls[c].refresh /\ calls[c].origStatus = 401) =>
                ~TokenPersisted /\ IsRejected(c) /\ calls[c].nTransport = 1

\* the access token of the value the token acquisition resolved with
NewToken(v) == IF v.kind = "object" THEN v.accessToken ELSE Undefined
\* the step of refreshToken from the settled token acquisition to the
\* dispatch of the retry
RetryDispatched(c) == calls[c].phase = "token" /\ calls'[c].phase = "retry"
AuthOf(hdrs) == IF Has(hdrs, "Authorization") THEN hdrs["Authorization"] ELSE "(unset)"
TokenOf(store) == IF Has(store, "accessToken") THEN store["accessToken"] ELSE "(unset)"

\* C4 (as stated): in FetchApi, when the retry is dispatched the header is
\* "Bearer <new token>" and the persisted token is the new token, whatever
\* value the token acquisition resolved with.
C4_TokenWrittenForEveryValue ==
    [][\A c \in Slots :
        (variant = "FetchApi" /\ RetryDispatched(c)) =>
            /\ AuthOf(headers') = "Bearer " \o NewToken(calls'[c].token)
            /\ TokenOf(localStorage') = NewToken(calls'[c].token)]_vars

\* C4 (amended): in FetchApi, when the retry is dispatched after the token
\* acquisition resolved with a truthy value, the header is "Bearer <new
\* token>" and the persisted token is the new token; after a falsy value
\* (null, undefined) neither is written and the retry is dispatched all the
\* same.
C4_TokenWrittenForTruthyValue ==
    [][\A c \in Slots :
        (variant = "FetchApi" /\ RetryDispatched(c)) =>
            IF calls'[c].token.kind = "object"
            THEN /\ AuthOf(headers') = "Bearer " \o calls'[c].token.accessToken
                 /\ TokenOf(localStorage') = calls'[c].token.accessToken
            ELSE /\ AuthOf(headers') = AuthOf(headers)
                 /\ TokenOf(localStorage') = TokenOf(localStorage)]_vars

\* witness of C4: the retry is in flight and header and store hold the token
\* the acquisition resolved with
C4_Witness ==
    \E c \in Slots :
        /\ variant = "FetchApi" /\ store0 = EmptyMap /\ ~auth0
        /\ calls[c].phase = "retry" /\ calls[c].step = "transport"
        /\ calls[c].token.kind = "object"
        /\ AuthOf(headers) = "Bearer " \o calls[c].token.accessToken
        /\ TokenOf(localStorage) = calls[c].token.accessToken

\* C5: every FetchApi.fetch call settles once the transport calls, the body
\* parses and the token-source call it waits for settle; it makes at most
\* three transport calls with a string token source, at most two with a
\* callable one (one without a token source), and at most one token
\* acquisition: a 401 answer to the token GET starts no nested refresh.
C5_SettlesWithinThreeCalls ==
    \A c \in Slots :
        /\ [](variant = "FetchApi" =>
                /\ calls[c].nTransport <=
                      (CASE tokenSource = "string" -> 3
                         [] tokenSource = "callable" -> 2
                         [] OTHER -> 1)
                /\ calls[c].nAcquire <= 1
                /\ (calls[c].phase = "token" => ~FrameRefresh(calls[c])))
        /\ (calls[c].phase \notin {"idle", "done"} ~> Done(c))

\* witness of C5: a settled call that made three transport calls
C5_Witness ==
    \E c \in Slots :
        variant = "FetchApi" /\ tokenSource = "string" /\ Done(c)
        /\ calls[c].nTransport = 3 /\ calls[c].nAcquire = 1

\* C6: deleteAuthHeader leaves the Authorization header unset and no token
\* persisted, and a setAuthHeader call that follows it leaves the header
\* unset.
C6_LogoutClearsBoth ==
    [][/\ (lastOp' = "deleteAuthHeader" =>
              ~Has(headers', "Authorization") /\ ~Has(localStorage', "accessToken"))
       /\ (lastOp = "deleteAuthHeader" /\ lastOp' = "setAuthHeader" =>
              ~Has(headers', "Authorization"))]_vars

\* witness of C6: setAuthHeader has returned on a client whose persisted
\* token (there was one at construction, and only deleteAuthHeader removes
\* one on a client with a token source) is gone, and the header is unset
C6_Witness ==
    /\ lastOp = "setAuthHeader" /\ tokenSource # "none"
    /\ store0 # EmptyMap /\ ~TokenPersisted /\ ~AuthSet

\* C7 (as stated): in every reachable state of a FetchApi client, when
\* setAuthHeader has returned the Authorization header is "Bearer <token>"
\* if a token is persisted and is unset if none is.
C7_SetAuthHeaderMirrorsStore ==
    (variant = "FetchApi" /\ lastOp = "setAuthHeader") =>
        IF TokenPersisted
        THEN AuthOf(headers) = "Bearer " \o localStorage["accessToken"]
        ELSE ~AuthSet

\* C7 (amended): in every reachable state of a FetchApi client, when
\* setAuthHeader returns the Authorization header is "Bearer <token>" if a
\* non-empty token is persisted, and otherwise is what it was before the
\* call (unset only if it was unset).
C7_SetAuthHeaderAddsOnly ==
    [][(variant = "FetchApi" /\ lastOp' = "setAuthHeader") =>
          IF Has(localStorage', "accessToken") /\ localStorage'["accessToken"] # ""
          THEN AuthOf(headers') = "Bearer " \o localStorage'["accessToken"]
          ELSE AuthOf(headers') = AuthOf(headers)]_vars

\* witness of C7: setAuthHeader has returned on a client that can get the
\* header from nowhere else (no header at construction, no token source),
\* and the header is the persisted token's
C7_Witness ==
    /\ variant = "FetchApi" /\ lastOp = "setAuthHeader"
    /\ tokenSource = "none" /\ ~auth0
    /\ TokenPersisted /\ AuthOf(headers) = "Bearer " \o localStorage["accessToken"]

\* C8 (as stated): a settled call has resolved if and only if the last
\* response to the original request or to the retry had status 200 or 201,
\* and it resolved with the parsed body of that response.
C8_ResolvesIffSuccessStatus ==
    \A c \in Slots :
        Done(c) =>
            /\ (IsResolved(c) <=> calls[c].lastStatus \in {200, 201})
            /\ (IsResolved(c) => calls[c].outcome.value = calls[c].parsed)

\* C8 (amended): a settled call has resolved if and only if the last
\* response to the original request or to the retry had status 200 or 201
\* and its body parsed as JSON, and it resolved with that parsed body; a
\* 200/201 response whose body is no JSON makes the call reject.
C8_ResolvesIffSuccessStatusAndJson ==
    \A c \in Slots :
        Done(c) =>
            /\ (IsResolved(c) <=>
                    (calls[c].lastStatus \in {200, 201}
                     /\ calls[c].parsed.kind # "unparseable"))
            /\ (IsResolved(c) => calls[c].outcome.value = calls[c].parsed)

\* witness of C8: a call resolved by the 201 answer to its retry
C8_Witness ==
    \E c \in Slots :
        Done(c) /\ IsResolved(c) /\ calls[c].nRetry = 1
        /\ calls[c].origStatus = 401 /\ calls[c].lastStatus = 201
        /\ calls[c].outcome.value.kind = "object"

\* C9 (as stated): in FetchApi a settled call whose response had a status
\* other than 200/201 and was not refreshed has rejected with a record
\* whose status is the response status and whose message and errors are
\* those of the parsed body (here: of a body that parsed to an object).
C9_ErrorRecordHasErrors ==
    \A c \in Slots :
        (variant = "FetchApi" /\ Done(c) /\ calls[c].nAcquire = 0
            /\ calls[c].lastStatus \in Statuses \ {200, 201}
            /\ calls[c].parsed.kind = "object") =>
                /\ IsRejected(c)
                /\ DOMAIN calls[c].outcome.value \subseteq {"status", "message", "errors"}
                /\ calls[c].outcome.value.status = calls[c].lastStatus
                /\ calls[c].outcome.value.message = calls[c].parsed.message
                /\ (calls[c].parsed.errors # Undefined =>
                        /\ "errors" \in DOMAIN calls[c].outcome.value
                        /\ calls[c].outcome.value.errors = calls[c].parsed.errors)

\* C10 (as stated): in FetchApi a settled call whose token acquisition threw
\* has rejected with the error record of the original 401 response: status
\* 401 and that response's message.
C10_TokenFailureSurfacesOriginal ==
    \A c \in Slots :
        (variant = "FetchApi" /\ Done(c) /\ calls[c].threw) =>
            /\ IsRejected(c)
            /\ "status" \in DOMAIN calls[c].outcome.value
            /\ calls[c].outcome.value.status = 401
            /\ calls[c].parsed.kind = "object"
            /\ calls[c].outcome.value.message = calls[c].parsed.message

\* a request of the call itself (the original one or the retry) is with
\* the transport
InFlight(c) == calls[c].step = "transport" /\ calls[c].phase \in {"orig", "retry"}
IsPost(method) == method \in {"POST", "PATCH"}
\* a body that is absent or a plain JSON value
PlainBody(body) ==
    \/ body.kind \in {"undefined", "null"}
    \/ /\ body.kind = "object"
       /\ \A i \in DOMAIN body.entries : body.entries[i].value.kind = "plain"

\* C12 (as stated): a request whose body is absent or a plain JSON value is
\* dispatched with Content-Type application/json; for POST and PATCH the
\* wire body is the JSON text of the body, of {} when the body is undefined;
\* for GET and DELETE no body is sent.
C12_JsonWire ==
    \A c \in Slots :
        (InFlight(c) /\ PlainBody(calls[c].bodyArg)) =>
            /\ calls[c].sent.contentType = "application/json"
            /\ calls[c].sent.body =
                  (IF IsPost(calls[c].method)
                   THEN Stringify(IF calls[c].bodyArg = UndefinedBody
                                  THEN Object(<<>>) ELSE calls[c].bodyArg)
                   ELSE NoBody)

\* C12 (amended): as C12, the wire body of a POST or PATCH being the JSON
\* text of {} when the body is undefined or null.
C12_JsonWireNullish ==
    \A c \in Slots :
        (InFlight(c) /\ PlainBody(calls[c].bodyArg)) =>
            /\ calls[c].sent.contentType = "application/json"
            /\ calls[c].sent.body =
                  (IF IsPost(calls[c].method)
                   THEN Stringify(IF calls[c].bodyArg \in {UndefinedBody, Null}
                                  THEN Object(<<>>) ELSE calls[c].bodyArg)
                   ELSE NoBody)

\* witness of C12: the retry of a PATCH without a body is in flight, with
\* the JSON text of {} as its body
C12_Witness ==
    \E c \in Slots :
        /\ InFlight(c) /\ calls[c].phase = "retry" /\ calls[c].method = "PATCH"
        /\ calls[c].bodyArg = UndefinedBody
        /\ calls[c].sent.contentType = "application/json"
        /\ Parse(calls[c].sent.body) = Object(<<>>)

\* C13 (as stated): in FetchApi a request whose body is a FormData is
\* dispatched without a Content-Type header and with that FormData as body,
\* whatever the conversion flag and the Content-Type held before.
C13_FormDataWire ==
    \A c \in Slots :
        (variant = "FetchApi" /\ InFlight(c) /\ IsFormData(calls[c].bodyArg)) =>
            /\ calls[c].sent.contentType = Unset
            /\ calls[c].sent.body = calls[c].bodyArg

\* C13 (amended): in FetchApi a request whose body is a FormData is
\* dispatched without a Content-Type header; a POST or PATCH carries that
\* FormData as body, a GET or DELETE carries no body.
C13_FormDataWirePost ==
    \A c \in Slots :
        (variant = "FetchApi" /\ InFlight(c) /\ IsFormData(calls[c].bodyArg)) =>
            /\ calls[c].sent.contentType = Unset
            /\ calls[c].sent.body =
                  (IF IsPost(calls[c].method) THEN calls[c].bodyArg ELSE NoBody)

\* witness of C13: on a client with the conversion enabled, whose header
\* collection held a Content-Type, a POST of a FormData is in flight
C13_Witness ==
    \E c \in Slots :
        /\ variant = "FetchApi" /\ convertToFormData
        /\ InFlight(c) /\ calls[c].method = "POST"
        /\ calls[c].bodyArg = PrebuiltForm /\ calls[c].sent.body = PrebuiltForm
        /\ calls[c].sent.contentType = Unset /\ ~Has(headers, "Content-Type")

\* C16 (as stated): a Fwr client dispatches every request (here: every
\* request without per-call overrides) with the caller's fetch options when
\* the constructor was given some, and with credentials include, cache
\* no-cache, mode cors when it was given none.
C16_DefaultPolicy ==
    \A c \in Slots :
        (variant = "Fwr" /\ calls[c].step = "transport" /\ calls[c].over = EmptyMap) =>
            IF callerOptions.given
            THEN /\ calls[c].sent.mode = Opt(callerOptions.options, "mode")
                 /\ calls[c].sent.credentials = Opt(callerOptions.options, "credentials")
                 /\ calls[c].sent.cache = Opt(callerOptions.options, "cache")
            ELSE /\ calls[c].sent.credentials = "include"
                 /\ calls[c].sent.cache = "no-cache"
                 /\ calls[c].sent.mode = "cors"

\* C17 (as stated): the dispatched method is the method of the call, the
\* dispatched body of a POST or PATCH is the computed body, and the URL is
\* baseUrl followed by the url of the call, whatever the stored options and
\* the per-call overrides hold.
C17_ComputedMethodWins ==
    \A c \in Slots :
        InFlight(c) =>
            /\ calls[c].sent.method = calls[c].method
            /\ (IsPost(calls[c].method) =>
                    calls[c].sent.body = WireBody(calls[c].body))
            /\ calls[c].sent.url = BaseUrl \o calls[c].url

\* a value that is a File, a FileList, or an array holding a File
FileValue(v) ==
    \/ v.kind \in {"File", "FileList"}
    \/ v.kind = "Array" /\ \E i \in DOMAIN v.items : v.items[i].kind = "File"
ContainsFile(body) ==
    body.kind = "object" /\ \E i \in DOMAIN body.entries : FileValue(body.entries[i].value)

\* C14 (as stated): in FetchApi with the conversion enabled, a request whose
\* body holds a File under a key, a FileList under a key, or an array with
\* a File under a key is dispatched as a FormData and without Content-Type.
C14_ConvertedWheneverFile ==
    \A c \in Slots :
        (variant = "FetchApi" /\ convertToFormData /\ InFlight(c)
            /\ ContainsFile(calls[c].bodyArg)) =>
                /\ IsFormData(calls[c].body) /\ IsFormData(calls[c].sent.body)
                /\ calls[c].sent.contentType = Unset

\* the body of the call was converted by toFormData
Converted(c) ==
    InFlight(c) /\ calls[c].bodyArg.kind = "object" /\ IsFormData(calls[c].body)
\* the names of the keys of an object and of the fields of a form, the
\* values of the fields of one name, the place of a key among the keys
KeysOf(body) == {body.entries[i].key : i \in DOMAIN body.entries}
NamesOf(fields) == {fields[i].name : i \in DOMAIN fields}
NamedLike(f, g) == f.name = g.name
RECURSIVE ValuesUnder(_, _)
ValuesUnder(fields, name) ==
    IF Len(fields) = 0 THEN <<>>
    ELSE (IF Head(fields).name = name THEN <<Head(fields).value>> ELSE <<>>)
         \o ValuesUnder(Tail(fields), name)
PlaceOf(body, key) == CHOOSE i \in DOMAIN body.entries : body.entries[i].key = key
RECURSIVE Without(_)
\* the entries whose value is no file value
Without(entries) ==
    IF Len(entries) = 0 THEN <<>>
    ELSE (IF FileValue(Head(entries).value) THEN <<>> ELSE <<Head(entries)>>)
         \o Without(Tail(entries))
\* the files of a file value, in order
FilesOf(v) ==
    CASE v.kind = "File" -> <<v>>
      [] v.kind = "FileList" -> [i \in DOMAIN v.files |-> File(v.files[i])]
      [] v.kind = "Array" ->
            ValuesUnder([i \in DOMAIN v.items |->
                            Field(IF v.items[i].kind = "File" THEN "file" ELSE "other",
                                  v.items[i])], "file")
      [] OTHER -> <<>>
\* the form starts with the one serialized-json field, and that field
\* parses to the body restricted to the keys given
JsonFieldFirst(form, entries) ==
    /\ Len(form.fields) >= 1
    /\ form.fields[1].name = "serialized-json"
    /\ \A i \in DOMAIN form.fields : i > 1 => form.fields[i].name # "serialized-json"
    /\ Parse(form.fields[1].value) = Object(entries)
\* the fields after the first follow the order of the keys of the body
InKeyOrder(form, body) ==
    \A i, j \in 2..Len(form.fields) :
        i < j => PlaceOf(body, form.fields[i].name) <= PlaceOf(body, form.fields[j].name)

\* C15 (as stated): the form toFormData returns starts with the one
\* serialized-json field, which parses to the body restricted to the keys
\* that hold no file; then comes one field per file, under the key the file
\* came from and in order; every key of the body is in exactly one of the
\* two places; a body without a file value is not converted.
C15_FormOfFilesAndJson ==
    \A c \in Slots :
        /\ Converted(c) =>
              LET body == calls[c].bodyArg
                  form == calls[c].body
                  json == Parse(form.fields[1].value)
              IN /\ JsonFieldFirst(form, Without(body.entries))
                 /\ NamesOf(Tail(form.fields)) \subseteq KeysOf(body)
                 /\ InKeyOrder(form, body)
                 /\ \A i \in DOMAIN body.entries :
                       LET e == body.entries[i] IN
                       /\ FileValue(e.value) =>
                             ValuesUnder(Tail(form.fields), e.key) = FilesOf(e.value)
                       /\ (e.key \in KeysOf(json)) # (e.key \in NamesOf(Tail(form.fields)))
        /\ (InFlight(c) /\ ~ContainsFile(calls[c].bodyArg)) => ~IsFormData(calls[c].body)

\* what FormData.append keeps of the elements of an array: a File as it
\* is, any other element as a string
ElementsOf(v) ==
    [i \in DOMAIN v.items |->
        IF v.items[i].kind = "File" THEN v.items[i]
        ELSE [kind |-> "string", of |-> v.items[i]]]

\* C15 (amended): as C15, except that an array holding a File adds one
\* field per element, a File or not, and that a key holding an empty
\* FileList is in neither of the two places: every key is in at most one.
C15_FormOfElementsAndJson ==
    \A c \in Slots :
        /\ Converted(c) =>
              LET body == calls[c].bodyArg
                  form == calls[c].body
                  json == Parse(form.fields[1].value)
              IN /\ JsonFieldFirst(form, Without(body.entries))
                 /\ NamesOf(Tail(form.fields)) \subseteq KeysOf(body)
                 /\ InKeyOrder(form, body)
                 /\ \A i \in DOMAIN body.entries :
                       LET e == body.entries[i] IN
                       /\ FileValue(e.value) =>
                             ValuesUnder(Tail(form.fields), e.key) =
                                (IF e.value.kind = "Array" THEN ElementsOf(e.value)
                                 ELSE FilesOf(e.value))
                       /\ ~(e.key \in KeysOf(json) /\ e.key \in NamesOf(Tail(form.fields)))
                       /\ (e.key \notin KeysOf(json) /\ e.key \notin NamesOf(Tail(form.fields)))
                             <=> e.value = FileList(<<>>)
        /\ (InFlight(c) /\ ~ContainsFile(calls[c].bodyArg)) => ~IsFormData(calls[c].body)

\* witness of C15: a converted body with a plain key and a FileList of two
\* files is in flight as a form of three fields
C15_Witness ==
    \E c \in Slots :
        /\ Converted(c)
        /\ calls[c].bodyArg =
              Object(<<Entry("a", Plain(1)), Entry("f", FileList(<<"F1", "F2">>))>>)
        /\ Len(calls[c].body.fields) = 3
        /\ Parse(calls[c].body.fields[1].value) = Object(<<Entry("a", Plain(1))>>)
        /\ calls[c].body.fields[3] = Field("f", File("F2"))

\* what baseQuery of call c resolved with: tag "data" or "error", with v
Wraps(c, tag, v) ==
    /\ calls[c].result.kind = "resolved"
    /\ DOMAIN calls[c].result.value = {tag}
    /\ calls[c].result.value[tag] = v

\* C11: baseQuery never rejects: while the underlying fetch is pending it
\* is pending, once fetch resolved with a result it has resolved with
\* {data: result}, once fetch rejected with e it has resolved with
\* {error: e}; and the step that settles it makes no transport call and
\* changes neither the headers nor the persisted storage.
C11_BaseQueryNeverRejects ==
    /\ [](\A c \in Slots : calls[c].via = "baseQuery" =>
             /\ calls[c].result.kind # "rejected"
             /\ ~Done(c) => calls[c].result = Pending
             /\ Done(c) => calls[c].outcome.kind \in {"resolved", "rejected"}
             /\ Done(c) /\ IsResolved(c) => Wraps(c, "data", calls[c].outcome.value)
             /\ Done(c) /\ IsRejected(c) => Wraps(c, "error", calls[c].outcome.value))
    /\ [][\A c \in Slots :
             calls[c].via = "baseQuery" /\ ~Done(c) /\ calls'[c].phase = "done" =>
                /\ headers' = headers
                /\ localStorage' = localStorage
                /\ calls'[c].nTransport = calls[c].nTransport
                /\ calls'[c].nAcquire = calls[c].nAcquire]_vars

\* a baseQuery whose fetch rejected has resolved with {error: e}, and one
\* whose fetch resolved is reachable too
C11_Witness ==
    \E c \in Slots :
        /\ calls[c].via = "baseQuery" /\ Done(c) /\ IsRejected(c)
        /\ calls[c].nTransport = 3
        /\ Wraps(c, "error", calls[c].outcome.value)

\* C18: get(url), post(url, body), patch(url, body) and delete(url) leave
\* the client and the call in the state that fetch leaves them in when it is
\* called with {url, method: GET/POST/PATCH/DELETE, body} and refresh at its
\* default true: the same encoding of the headers, the same request on the
\* wire, the same call to continue.
C18_ShorthandsAreFetch ==
    [][/\ lastOp' = "get" =>
            \E c \in Slots, u \in Urls :
                FetchAs(c, u, "GET", UndefinedBody, TRUE, EmptyMap, "fetch", "get")
       /\ lastOp' = "post" =>
            \E c \in Slots, u \in Urls, b \in ApiBodies :
                FetchAs(c, u, "POST", b, TRUE, EmptyMap, "fetch", "post")
       /\ lastOp' = "patch" =>
            \E c \in Slots, u \in Urls, b \in ApiBodies :
                FetchAs(c, u, "PATCH", b, TRUE, EmptyMap, "fetch", "patch")
       /\ lastOp' = "delete" =>
            \E c \in Slots, u \in Urls :
                FetchAs(c, u, "DELETE", UndefinedBody, TRUE, EmptyMap, "fetch", "delete")]_vars

\* delete(url) has dispatched a DELETE request without a body
C18_Witness ==
    /\ lastOp = "delete"
    /\ \E c \in Slots :
          /\ calls[c].sent.method = "DELETE"
          /\ calls[c].sent.body = NoBody
          /\ calls[c].refresh
          /\ calls[c].nTransport = 1

\* call c awaits the response to its original request
AwaitsResponse(c) == calls[c].phase = "orig" /\ calls[c].step = "transport"
\* the token acquisition of call c ends with this step
AcquisitionEnds(c) == calls[c].phase = "token" /\ calls'[c].phase # "token"
\* this step writes the token call c obtained into header and store
Overwrites(c) ==
    /\ calls'[c].token.kind = "object"
    /\ AuthOf(headers') = Bearer(calls'[c].token.accessToken)
    /\ TokenOf(localStorage') = calls'[c].token.accessToken
\* the calls that have received 401 for their original request
Got401 == {c \in Calls : calls[c].origStatus = 401}
RECURSIVE Acquisitions(_)
Acquisitions(cs) ==
    IF cs = {} THEN 0
    ELSE LET c == CHOOSE x \in cs : TRUE IN calls[c].nAcquire + Acquisitions(cs \ {c})

\* C19 (as stated): on a client with a token source, a call whose request
\* is answered 401 starts a token acquisition whatever the other calls are
\* doing, there are as many acquisitions as calls that received 401, and
\* every acquisition ends with the Authorization header and the persisted
\* token overwritten.
C19_EachRefreshOverwrites ==
    /\ [](\A c \in Calls : AwaitsResponse(c) => ENABLED RespondRefresh(c))
    /\ [](Acquisitions(Calls) = Cardinality(Got401))
    /\ [][\A c \in Calls : AcquisitionEnds(c) => Overwrites(c)]_vars

\* C19 (amended): as above, but only an acquisition that resolves with a
\* truthy value overwrites header and persisted token, whatever another
\* refresh has written there; one that throws or resolves with a falsy
\* value leaves both as they are.
C19_EachRefreshOverwritesIfTruthy ==
    /\ [](\A c \in Calls : AwaitsResponse(c) => ENABLED RespondRefresh(c))
    /\ [](Acquisitions(Calls) = Cardinality(Got401))
    /\ [][\A c \in Calls : AcquisitionEnds(c) =>
            IF calls'[c].phase = "retry" /\ Truthy(calls'[c].token)
            THEN Overwrites(c)
            ELSE /\ AuthOf(headers') = AuthOf(headers)
                 /\ TokenOf(localStorage') = TokenOf(localStorage)]_vars

\* every call has made its own acquisition, and the one that ended last
\* has overwritten the token the other had written
C19_Witness ==
    /\ \A c \in Calls : calls[c].phase = "retry" /\ calls[c].nAcquire = 1
    /\ \E c, d \in Calls :
          /\ Truthy(calls[c].token) /\ Truthy(calls[d].token)
          /\ calls[c].token # calls[d].token
          /\ AuthOf(headers) = Bearer(calls[c].token.accessToken)
          /\ TokenOf(localStorage) = calls[c].token.accessToken

\* the request call c has at the transport
AtTransport(c) == calls[c].step = "transport"
\* the body the request at the transport was encoded for
OwnBody(c) == IF calls[c].phase = "token" THEN UndefinedBody ELSE calls[c].body
\* the Content-Type state that the encoding of a body leaves
RequiredContentType(body) == IF IsFormData(body) THEN Unset ELSE "application/json"
\* the request of call c went out with another Content-Type state than the
\* one its own body requires
Mismatch(c) ==
    AtTransport(c) /\ calls[c].sent.contentType # RequiredContentType(OwnBody(c))
\* two calls have requests at the transport whose bodies require different
\* Content-Type states
TwoInFlightDiffer ==
    \E c, d \in Calls :
        /\ AtTransport(c) /\ AtTransport(d)
        /\ RequiredContentType(OwnBody(c)) # RequiredContentType(OwnBody(d))

StepOf(c) == calls'[c] # calls[c]
\* the step leaves the Authorization header and the persisted token alone
AuthKept ==
    /\ AuthOf(headers') = AuthOf(headers)
    /\ TokenOf(localStorage') = TokenOf(localStorage)

\* C21: a FetchApi call made with refresh=false makes one transport call
\* whatever the status of the response, no token acquisition and no retry;
\* none of its steps changes the Authorization header or the persisted
\* token; answered 401 it goes to error(response) and rejects with what
\* error throws.
C21_NoRefreshOneTransportCall ==
    /\ [](\A c \in Slots :
            (variant = "FetchApi" /\ ~calls[c].refresh /\ calls[c].phase # "idle") =>
                /\ calls[c].nTransport = 1
                /\ calls[c].nAcquire = 0 /\ calls[c].nRetry = 0
                /\ calls[c].phase \in {"orig", "done"}
                /\ (calls[c].status = 401 /\ ~Done(c) => calls[c].step = "errjson")
                /\ (Done(c) /\ calls[c].origStatus = 401 =>
                        /\ IsRejected(c)
                        /\ calls[c].outcome.value = FetchApiError(401, calls[c].parsed)))
    /\ [][\A c \in Slots :
            (variant = "FetchApi" /\ ~calls'[c].refresh /\ StepOf(c)) => AuthKept]_vars

\* a call made with refresh=false on a client with a token source and a
\* token in header and store was answered 401 and has rejected; header and
\* store still hold the token
C21_Witness ==
    \E c \in Slots :
        /\ variant = "FetchApi" /\ tokenSource # "none" /\ ~calls[c].refresh
        /\ Done(c) /\ calls[c].origStatus = 401 /\ IsRejected(c)
        /\ calls[c].nTransport = 1
        /\ AuthSet /\ TokenPersisted

\* C22: in FetchApi, when obtaining the token throws, no retried request
\* is dispatched, and no step of the refresh, from the 401 answer to the
\* abort, changes the Authorization header or the persisted token.
C22_FailedRefreshAborts ==
    /\ [](\A c \in Slots :
            (variant = "FetchApi" /\ calls[c].threw) =>
                /\ calls[c].nRetry = 0
                /\ calls[c].phase \in {"abort", "done"}
                /\ calls[c].nTransport = (IF tokenSource = "string" THEN 2 ELSE 1))
    /\ [][\A c \in Slots :
            (/\ variant = "FetchApi" /\ StepOf(c)
             /\ calls'[c].phase \in {"token", "abort"} \/ calls'[c].threw) => AuthKept]_vars

\* the token acquisition of a client with a token in header and store
\* threw; the call has ended without a retry and both still hold the token
C22_Witness ==
    \E c \in Slots :
        /\ variant = "FetchApi" /\ tokenSource = "string"
        /\ Done(c) /\ calls[c].threw /\ calls[c].nRetry = 0
        /\ AuthOf(headers) = Bearer("t1") /\ TokenOf(localStorage) = "t1"

\* url, method, wire body and Content-Type state of a dispatched request
WireOf(sent) == <<sent.url, sent.method, sent.body, sent.contentType>>
\* the same four of the original dispatch of call c: fetch applied to the
\* arguments the call was made with
OriginalWire(c) ==
    LET enc == Encode(calls[c].bodyArg, EmptyMap) IN
    WireOf(Sent(calls[c].url, calls[c].method, enc.body, EmptyMap, enc.headers))

\* C23: in FetchApi the original request of a call goes out with the url,
\* method, wire body and Content-Type state that fetch computes from the
\* call's arguments, the retried request after a refresh goes out with the
\* same four, and the arguments do not change while the call runs; a body
\* converted to multipart is sent again as the same form.
C23_RetryRepeatsOriginal ==
    /\ [](\A c \in Slots :
            (variant = "FetchApi" /\ calls[c].phase \in {"orig", "retry"}) =>
                WireOf(calls[c].sent) = OriginalWire(c))
    /\ [][\A c \in Slots :
            (variant = "FetchApi" /\ calls[c].phase \notin {"idle", "done"}) =>
                /\ calls'[c].url = calls[c].url
                /\ calls'[c].method = calls[c].method
                /\ calls'[c].bodyArg = calls[c].bodyArg]_vars

\* the retry of a POST whose body was converted to multipart is with the
\* transport: the form, and no Content-Type
C23_Witness ==
    \E c \in Slots :
        /\ variant = "FetchApi" /\ convertToFormData
        /\ calls[c].phase = "retry" /\ calls[c].step = "transport"
        /\ calls[c].bodyArg = FileBody
        /\ calls[c].sent.method = "POST"
        /\ calls[c].sent.body = ToFormData(FileBody)
        /\ calls[c].sent.contentType = Unset

\* C29 (as stated): the retried request after a refresh is the request
\* that fetch dispatches for the call's url, method and body with the
\* per-call overrides the original request was made with.
C29_RetryKeepsOverrides ==
    [][\A c \in Slots :
        RetryDispatched(c) =>
            calls'[c].sent = Sent(calls[c].url, calls[c].method, calls'[c].body,
                                  calls[c].over, headers')]_vars

\* C30 (as stated): a FetchApi call that has rejected after the transport
\* answered its requests, the last of them with a status that is no
\* success, has rejected with an error record whose status is the status
\* of a response the call received, whatever the body of the response was.
C30_RejectsWithStatusRecord ==
    \A c \in Slots :
        (/\ variant = "FetchApi" /\ Done(c) /\ IsRejected(c)
         /\ calls[c].origStatus # 0 /\ ~IsSuccess(calls[c].lastStatus)
         /\ calls[c].outcome.value # NetworkError) =>
            /\ "status" \in DOMAIN calls[c].outcome.value
            /\ calls[c].outcome.value.status \in {calls[c].origStatus, calls[c].lastStatus}

\* C24 (as stated): on a client of FetchApi of part_001 with the conversion
\* enabled, a call with an absent body reaches the transport, and its
\* request goes out with Content-Type application/json, with the body {}
\* for POST and PATCH and without a body for GET and DELETE.
C24_AbsentBodyTakesJsonPath ==
    \A c \in Slots :
        (/\ variant = "FetchApiTs" /\ convertToFormData
         /\ calls[c].bodyArg = UndefinedBody /\ calls[c].phase # "idle") =>
            /\ calls[c].nTransport >= 1
            /\ calls[c].phase = "orig" /\ calls[c].step = "transport" =>
                  /\ calls[c].sent.contentType = "application/json"
                  /\ calls[c].sent.body = (IF IsPost(calls[c].method)
                                           THEN Stringify(Object(<<>>)) ELSE NoBody)

\* C25 (as stated): on a client of FetchApi of part_001, with the
\* conversion enabled or not, a POST or PATCH request of a call made with a
\* FormData body, the original one or the retry, goes out with that
\* FormData as body and without Content-Type.
C25_FormDataLeftAlone ==
    \A c \in Slots :
        (/\ variant = "FetchApiTs" /\ InFlight(c)
         /\ IsFormData(calls[c].bodyArg) /\ IsPost(calls[c].method)) =>
            /\ calls[c].sent.body = calls[c].bodyArg
            /\ calls[c].sent.contentType = Unset

\* the request dispatched in this step by call c is built from the header
\* collection as the step leaves it
BuiltFromHeaders(c) == calls'[c].sent.contentType = Opt(headers', "Content-Type")

\* C26: whatever the interleaving of the calls and their refreshes, the
\* step of a FetchApi call that ends a token acquisition with a truthy
\* payload writes 'Bearer <token>' of that payload and dispatches the retry
\* in one: the retried request is built from the header collection holding
\* the call's own token, whatever another refresh had written there.
C26_RetryCarriesOwnToken ==
    [][\A c \in Calls :
        (variant = "FetchApi" /\ RetryDispatched(c) /\ Truthy(calls'[c].token)) =>
            /\ calls'[c].step = "transport"
            /\ calls'[c].nTransport = calls[c].nTransport + 1
            /\ BuiltFromHeaders(c)
            /\ AuthOf(headers') = Bearer(calls'[c].token.accessToken)]_vars

\* the retry of one call is with the transport, dispatched with the call's
\* own token after the refresh of another call had written another token
\* and dispatched that call's retry, which has been answered since
C26_Witness ==
    \E c, d \in Calls :
        /\ variant = "FetchApi"
        /\ calls[c].phase = "retry" /\ calls[c].step = "transport"
        /\ calls[d].phase = "retry" /\ calls[d].step # "transport"
        /\ Truthy(calls[c].token) /\ Truthy(calls[d].token)
        /\ calls[c].token.accessToken # calls[d].token.accessToken
        /\ AuthOf(headers) = Bearer(calls[c].token.accessToken)

\* some call ends its token acquisition with a truthy payload in this step
TokenArrives ==
    \E c \in Calls : RetryDispatched(c) /\ Truthy(calls'[c].token)
\* header and persisted token hold the same token, or none
SameToken ==
    IF AuthSet \/ TokenPersisted
    THEN AuthSet /\ TokenPersisted /\ AuthOf(headers) = Bearer(TokenOf(localStorage))
    ELSE TRUE

\* C27 (as stated): every token acquisition that completes leaves its
\* token in the Authorization header and in the persisted 'accessToken',
\* and no other step changes them, so that both hold the token of the
\* acquisition that completed last; the two always hold the same token.
C27_LastCompletionWins ==
    /\ []SameToken
    /\ [][\A c \in Calls : RetryDispatched(c) => Overwrites(c)]_vars
    /\ [][(~\E c \in Calls : RetryDispatched(c)) => AuthKept]_vars

\* C27 (amended): every token acquisition that completes with a truthy
\* value leaves its token in the Authorization header and in the persisted
\* 'accessToken', and no other step changes them (not one that completes
\* with a falsy value either), so that both hold the token of the
\* acquisition that was the last to complete with a truthy value; the two
\* always hold the same token.
C27_LastTruthyCompletionWins ==
    /\ []SameToken
    /\ [][\A c \in Calls :
            (RetryDispatched(c) /\ Truthy(calls'[c].token)) => Overwrites(c)]_vars
    /\ [][~TokenArrives => AuthKept]_vars

\* the token acquisitions of all calls have completed, one with the token
\* t1 and one with a payload without accessToken, and header and store
\* hold t1: that acquisition completed last
C27_Witness ==
    /\ \A c \in Calls : calls[c].nRetry = 1 /\ calls[c].phase = "retry"
    /\ \E c, d \in Calls :
          /\ Truthy(calls[c].token) /\ calls[c].token.accessToken = "t1"
          /\ Truthy(calls[d].token) /\ calls[d].token.accessToken = Undefined
    /\ AuthOf(headers) = Bearer("t1")
    /\ TokenOf(localStorage) = "t1"

\* C28 (as stated): on a FetchApi client a refresh that is in progress
\* when deleteAuthHeader returns does not write the Authorization header or
\* the persisted token in the step that follows the logout.
C28_LogoutNotUndone ==
    [][\A c \in Slots :
        (/\ variant = "FetchApi" /\ lastOp = "deleteAuthHeader"
         /\ calls[c].phase = "token" /\ StepOf(c)) =>
            /\ AuthOf(headers') = Unset
            /\ TokenOf(localStorage') = Unset]_vars

====
